---- MODULE Spec2Model ----
(***************************************************************************)
(* A model of geeteventbus' AsynchronousEventBus                           *)
(* (src/src/main/geeteventbus/async_eventbus.py): the bounded shared       *)
(* queue and the per-executor lanes, the executor threads' loop, the       *)
(* consumer registry with its locks, the per-subscriber dispatch guards    *)
(* and shutdown.                                                           *)
(***************************************************************************)
EXTENDS Integers, Sequences, FiniteSets, TLC

\* ------------------------------------------------------------------------
\* Program constants
\* ------------------------------------------------------------------------
MAX_TOPIC_INDEX == 16
MAX_EXECUTOR_COUNT == 128
\* shutdown(): self.stop_time = time() + 2
FLUSH_WAIT == 2

\* ------------------------------------------------------------------------
\* Bounds of the model
\* ------------------------------------------------------------------------
\* the clock runs from 1 to MaxTime
MaxTime == 3
\* post() calls made in a run
MaxPosts == 2
\* post() calls made in a run that also calls shutdown
MaxShutdownPosts == 1
\* post() calls made in a run that also changes the registry
MaxRegistryPosts == 2
\* register_consumer / unregister_consumer / is_subscribed calls made in a run
MaxAdminOps == 2
\* shutdown() calls one caller makes in a run
MaxShutdownCalls == 1

\* ------------------------------------------------------------------------
\* The values the clients pass in
\* ------------------------------------------------------------------------
NONE == "None"
\* the result of a call that has not returned
PENDING == "pending"
Topics == {"topic", "other"}
OrderKeys == {"ord", "a"}
Consumers == {"c1", "c2"}
Posters == {101, 102}
Admins == {201, 202}
Stoppers == {301, 302}
NoThread == -1

\* bytes(data, encoding='UTF-8') of the strings the model uses
Utf8(s) ==
    CASE s = "ord" -> <<111, 114, 100>>
      [] s = "a" -> <<97>>
      [] s = "topic" -> <<116, 111, 112, 105, 99>>
      [] s = "other" -> <<111, 116, 104, 101, 114>>

\* ------------------------------------------------------------------------
\* zlib.crc32 on 32-bit words kept as sequences of bits, least significant
\* bit first (a 32-bit value does not fit TLC's integers)
\* ------------------------------------------------------------------------
Pow2(n) == 2 ^ n

ToBits(n, w) == [i \in 1..w |-> (n \div Pow2(i - 1)) % 2]

Pad32(b) == [i \in 1..32 |-> IF i <= Len(b) THEN b[i] ELSE 0]

XorBits(a, b) == [i \in 1..32 |-> (a[i] + b[i]) % 2]

ShiftRight1(a) == [i \in 1..32 |-> IF i < 32 THEN a[i + 1] ELSE 0]

\* the reflected CRC-32 polynomial 0xEDB88320
CrcPoly == ToBits(33568, 16) \o ToBits(60856, 16)

AllOnes == [i \in 1..32 |-> 1]

RECURSIVE CrcShift(_, _)
CrcShift(c, n) ==
    IF n = 0 THEN c
    ELSE CrcShift(IF c[1] = 1 THEN XorBits(ShiftRight1(c), CrcPoly)
                  ELSE ShiftRight1(c), n - 1)

RECURSIVE CrcBytes(_, _)
CrcBytes(c, bytes) ==
    IF bytes = <<>> THEN c
    ELSE CrcBytes(CrcShift(XorBits(c, Pad32(ToBits(Head(bytes), 8))), 8),
                  Tail(bytes))

crc32(bytes) == XorBits(CrcBytes(AllOnes, bytes), AllOnes)

get_crc32(data) == crc32(Utf8(data))

RECURSIVE BitAndSum(_, _, _)
BitAndSum(bits, m, i) ==
    IF i > 31 THEN 0
    ELSE (IF m[i] = 1 THEN bits[i] * Pow2(i - 1) ELSE 0) + BitAndSum(bits, m, i + 1)

\* bits & mask, for a mask below 2^31
BitAnd(bits, mask) == BitAndSum(bits, ToBits(mask, 31), 1)

\* the checksum of every string the model hashes, computed once
CrcTable == [s \in OrderKeys \cup Topics |-> get_crc32(s)]

\* _get_topic_index. self.topics repeats one dict and self.index_locks one Lock
\* MAX_TOPIC_INDEX times, so every index names the same dict and the same lock:
\* the model keeps that one dict as topics and that one lock as index_locks.
get_topic_index(topic) == BitAnd(CrcTable[topic], MAX_TOPIC_INDEX - 1)

Min(a, b) == IF a <= b THEN a ELSE b

\* Python's a % b for b > 0
PyMod(a, b) == a % b

\* ------------------------------------------------------------------------
\* State
\* ------------------------------------------------------------------------
VARIABLES
    \* constructor arguments
    executor_count, max_queued_event, subscribers_thread_safe,
    \* the bus
    keep_running, stop_time, event_queue, grouped_events,
    topics, consumers, subscriber_locks, lock_objs,
    consumers_lock, index_locks, shutdown_lock,
    \* time()
    now,
    \* the subscribers whose process() raises an exception
    raising,
    \* the executor threads: position and locals
    wpc, wlocal,
    \* threads calling post
    ppc, plocal, presult,
    \* threads calling register_consumer / unregister_consumer / is_subscribed
    apc, alocal, aresult,
    \* threads calling shutdown
    spc, sjoin, scalls,
    \* history: what has happened so far
    posts, accepted, processed, dispatched, unregistered, admin_ops,
    transitions, joined_by, returned

config_vars == <<executor_count, max_queued_event, subscribers_thread_safe, raising>>
queue_vars == <<event_queue, grouped_events>>
registry_vars == <<topics, consumers, subscriber_locks, consumers_lock, index_locks>>
worker_vars == <<wpc, wlocal>>
poster_vars == <<ppc, plocal, presult, posts, accepted>>
admin_vars == <<apc, alocal, aresult, admin_ops, unregistered>>
stopper_vars == <<spc, sjoin, scalls, transitions, joined_by, returned>>
flag_vars == <<keep_running, stop_time, shutdown_lock>>

vars == <<executor_count, max_queued_event, subscribers_thread_safe,
          keep_running, stop_time, event_queue, grouped_events,
          topics, consumers, subscriber_locks, lock_objs,
          consumers_lock, index_locks, shutdown_lock, now, raising,
          wpc, wlocal, ppc, plocal, presult, apc, alocal, aresult,
          spc, sjoin, scalls,
          posts, accepted, processed, dispatched, unregistered, admin_ops,
          transitions, joined_by, returned>>

\* the executor threads executor_thread_0 .. executor_thread_(n-1)
Executors == 0..(executor_count - 1)

\* ------------------------------------------------------------------------
\* Objects
\* ------------------------------------------------------------------------
\* an Event instance: identity, get_topic(), get_ordered()
EventObj(id, topic, ordered) ==
    [cls |-> "Event", id |-> id, topic |-> topic, ordered |-> ordered]

\* an object that is no Event instance
OtherObj(id) == [cls |-> "object", id |-> id, topic |-> NONE, ordered |-> NONE]

NoEvent == [cls |-> "None", id |-> 0, topic |-> NONE, ordered |-> NONE]

\* isinstance(eventobj, Event)
IsEvent(obj) == obj.cls = "Event"

\* isinstance(consumer, Subscriber): the model's one non-subscriber is "obj"
IsSubscriber(consumer) == consumer \in Consumers

SeqToSet(s) == {s[i] : i \in 1..Len(s)}

\* list.remove(x): the first occurrence goes
RECURSIVE ListRemove(_, _)
ListRemove(s, x) ==
    IF s = <<>> THEN <<>>
    ELSE IF Head(s) = x THEN Tail(s)
    ELSE <<Head(s)>> \o ListRemove(Tail(s), x)

\* a dict with key k set to v
DictSet(d, k, v) == [x \in DOMAIN d \cup {k} |-> IF x = k THEN v ELSE d[x]]

\* del d[k]
DictDel(d, k) == [x \in DOMAIN d \ {k} |-> d[x]]

EmptyDict == [x \in {} |-> 0]

WLocal0 ==
    [queue |-> NONE, eventobj |-> NoEvent, subs |-> <<>>, subscr |-> NONE, lock |-> 0]

\* what a registry call gave: the operation, its consumer, and the value it
\* returned or the exception it raised
AResult(op, consumer, value) == [op |-> op, consumer |-> consumer, value |-> value]

ALocal0 == [op |-> NONE, consumer |-> NONE, topic |-> NONE, left |-> <<>>]

\* ------------------------------------------------------------------------
\* __init__
\* ------------------------------------------------------------------------
BusInit(count, capacity, thread_safe) ==
    /\ subscribers_thread_safe = thread_safe
    /\ max_queued_event = capacity
    /\ executor_count = Min(count, MAX_EXECUTOR_COUNT)
    /\ consumers_lock = NoThread
    /\ shutdown_lock = NoThread
    /\ index_locks = NoThread
    /\ keep_running = TRUE
    /\ stop_time = 0
    /\ event_queue = <<>>
    /\ grouped_events = [i \in 1..Min(count, MAX_EXECUTOR_COUNT) |-> <<>>]
    /\ wpc = [w \in 0..(Min(count, MAX_EXECUTOR_COUNT) - 1) |-> "loop"]
    /\ wlocal = [w \in 0..(Min(count, MAX_EXECUTOR_COUNT) - 1) |-> WLocal0]
    /\ joined_by = [w \in 0..(Min(count, MAX_EXECUTOR_COUNT) - 1) |-> <<>>]

\* the registry of a new bus
RegistryEmpty ==
    /\ topics = EmptyDict
    /\ consumers = EmptyDict
    /\ subscriber_locks = EmptyDict
    /\ lock_objs = <<>>

\* the registry after register_consumer(c, "topic") has returned for each c of
\* the list cs, in the list's order
RegistryWith(cs) ==
    /\ topics = IF cs = <<>> THEN EmptyDict ELSE [t \in {"topic"} |-> cs]
    /\ consumers = [c \in SeqToSet(cs) |-> <<"topic">>]
    /\ subscriber_locks =
         IF subscribers_thread_safe THEN EmptyDict
         ELSE [c \in SeqToSet(cs) |-> CHOOSE i \in 1..Len(cs) : cs[i] = c]
    /\ lock_objs =
         IF subscribers_thread_safe THEN <<>> ELSE [i \in 1..Len(cs) |-> NoThread]

\* the subscribers' process(): every call by a subscriber of rs raises
SubscribersInit(rs) == raising = rs

ClientsInit ==
    /\ now = 1
    /\ ppc = [p \in Posters |-> "idle"]
    /\ plocal = [p \in Posters |-> NoEvent]
    /\ presult = [p \in Posters |-> [obj |-> NoEvent, value |-> NONE]]
    /\ apc = [a \in Admins |-> "idle"]
    /\ alocal = [a \in Admins |-> ALocal0]
    /\ aresult = [a \in Admins |-> AResult(NONE, NONE, NONE)]
    /\ spc = [s \in Stoppers |-> "idle"]
    /\ sjoin = [s \in Stoppers |-> 0]
    /\ scalls = [s \in Stoppers |-> 0]
    /\ posts = 0
    /\ accepted = <<>>
    /\ processed = [c \in Consumers |-> <<>>]
    /\ dispatched = {}
    /\ unregistered = {}
    /\ admin_ops = 0
    /\ transitions = <<>>
    /\ returned = <<>>

\* ------------------------------------------------------------------------
\* time()
\* ------------------------------------------------------------------------
Tick ==
    /\ now < MaxTime
    /\ now' = now + 1
    /\ UNCHANGED <<config_vars, flag_vars, queue_vars, registry_vars, lock_objs,
                   worker_vars, poster_vars, admin_vars, stopper_vars,
                   processed, dispatched>>

\* ------------------------------------------------------------------------
\* post
\* ------------------------------------------------------------------------
\* a _choose_queue that ignores the ordering key
choose_queue_unordered(eventobj) == [kind |-> "shared", indx |-> 0]

\* _choose_queue: the lane of an ordering key, or the shared queue
choose_queue(eventobj) ==
    IF eventobj.ordered # NONE
    THEN [kind |-> "lane",
          indx |-> PyMod(BitAnd(CrcTable[eventobj.ordered], MAX_EXECUTOR_COUNT - 1),
                         executor_count)]
    ELSE [kind |-> "shared", indx |-> 0]

\* a put that lets one event more in
QueueFullLate(queue, maxsize) == maxsize > 0 /\ Len(queue) > maxsize

\* Queue(maxsize).put blocks while the queue is full; maxsize <= 0 is unbounded
QueueFull(queue, maxsize) == maxsize > 0 /\ Len(queue) >= maxsize

\* a post that does not look at keep_running
post_rejects_object_only(obj) == ~IsEvent(obj)

\* post's two rejections: not an Event instance, or the bus is not running
post_rejects(obj) == ~IsEvent(obj) \/ ~keep_running

\* post, up to the choice of the queue: the two rejections, and what
\* _choose_queue raises when there is no lane to index
PostCall(p, obj) ==
    /\ ppc[p] = "idle"
    /\ posts' = posts + 1
    /\ IF post_rejects(obj)
       THEN /\ presult' = [presult EXCEPT ![p] = [obj |-> obj, value |-> "False"]]
            /\ UNCHANGED <<ppc, plocal>>
       ELSE IF obj.ordered # NONE /\ executor_count = 0
       THEN /\ presult' = [presult EXCEPT ![p] =
                              [obj |-> obj, value |-> "ZeroDivisionError"]]
            /\ UNCHANGED <<ppc, plocal>>
       ELSE IF obj.ordered # NONE /\ executor_count < 0
       THEN /\ presult' = [presult EXCEPT ![p] = [obj |-> obj, value |-> "IndexError"]]
            /\ UNCHANGED <<ppc, plocal>>
       ELSE /\ ppc' = [ppc EXCEPT ![p] = "put"]
            /\ plocal' = [plocal EXCEPT ![p] = obj]
            /\ presult' = [presult EXCEPT ![p] = [obj |-> obj, value |-> PENDING]]
    /\ UNCHANGED <<config_vars, flag_vars, queue_vars, registry_vars, lock_objs, now,
                   worker_vars, admin_vars, stopper_vars, accepted,
                   processed, dispatched>>

\* queue.put(eventobj); return True
PostPut(p) ==
    /\ ppc[p] = "put"
    /\ LET queue == choose_queue(plocal[p]) IN
       IF queue.kind = "shared"
       THEN /\ ~QueueFull(event_queue, max_queued_event)
            /\ event_queue' = Append(event_queue, plocal[p])
            /\ UNCHANGED grouped_events
       ELSE /\ grouped_events' =
                [grouped_events EXCEPT ![queue.indx + 1] = Append(@, plocal[p])]
            /\ UNCHANGED event_queue
    /\ presult' = [presult EXCEPT ![p] = [obj |-> plocal[p], value |-> "True"]]
    /\ accepted' = Append(accepted, plocal[p])
    /\ ppc' = [ppc EXCEPT ![p] = "idle"]
    /\ plocal' = [plocal EXCEPT ![p] = NoEvent]
    /\ UNCHANGED <<config_vars, flag_vars, registry_vars, lock_objs, now,
                   worker_vars, admin_vars, stopper_vars, posts,
                   processed, dispatched>>

\* ------------------------------------------------------------------------
\* The executor threads: __call__
\* ------------------------------------------------------------------------
thread_should_end == stop_time > 0 /\ now < stop_time

\* a _choose_queue_to_pull that prefers the shared queue
choose_queue_to_pull_shared_first(w) ==
    IF event_queue # <<>> THEN "shared"
    ELSE IF grouped_events[w + 1] # <<>> THEN "lane" ELSE "shared"

\* _choose_queue_to_pull: the thread's own lane unless it is empty
choose_queue_to_pull(w) ==
    IF grouped_events[w + 1] # <<>> THEN "lane" ELSE "shared"

\* while not self._thread_should_end(), and in the loop's body the choice of
\* the queue to pull from. The two are one step: the test reads only stop_time
\* and the clock, the choice only the thread's own lane.
WorkerLoop(w) ==
    /\ wpc[w] = "loop"
    /\ IF thread_should_end
       THEN /\ wpc' = [wpc EXCEPT ![w] = "done"]
            /\ UNCHANGED wlocal
       ELSE /\ wpc' = [wpc EXCEPT ![w] = "get"]
            /\ wlocal' = [wlocal EXCEPT ![w].queue = choose_queue_to_pull(w)]
    /\ UNCHANGED <<config_vars, flag_vars, queue_vars, registry_vars, lock_objs, now,
                   poster_vars, admin_vars, stopper_vars, processed, dispatched>>

\* _get_next_event: queue.get(timeout) gives the head, or Empty (None) when the
\* queue stays empty for the timeout
WorkerGet(w) ==
    /\ wpc[w] = "get"
    /\ LET lane == wlocal[w].queue = "lane"
           queue == IF lane THEN grouped_events[w + 1] ELSE event_queue
       IN IF queue = <<>>
          THEN /\ wpc' = [wpc EXCEPT ![w] = "loop"]
               /\ wlocal' = [wlocal EXCEPT ![w] = WLocal0]
               /\ UNCHANGED queue_vars
          ELSE /\ wpc' = [wpc EXCEPT ![w] = "subs_lock"]
               /\ wlocal' = [wlocal EXCEPT ![w].eventobj = Head(queue)]
               /\ IF lane
                  THEN /\ grouped_events' = [grouped_events EXCEPT ![w + 1] = Tail(@)]
                       /\ UNCHANGED event_queue
                  ELSE /\ event_queue' = Tail(event_queue)
                       /\ UNCHANGED grouped_events
    /\ UNCHANGED <<config_vars, flag_vars, registry_vars, lock_objs, now,
                   poster_vars, admin_vars, stopper_vars, processed, dispatched>>

\* _get_subscribers: with self.index_locks[indexval]
WorkerSubsLock(w) ==
    /\ wpc[w] = "subs_lock"
    /\ index_locks = NoThread
    /\ index_locks' = w
    /\ wpc' = [wpc EXCEPT ![w] = "subs_copy"]
    /\ UNCHANGED <<config_vars, flag_vars, queue_vars, topics, consumers,
                   subscriber_locks, consumers_lock, lock_objs, now,
                   wlocal, poster_vars, admin_vars, stopper_vars,
                   processed, dispatched>>

\* _get_subscribers: a copy of the topic's list, or []
get_subscribers(topic) ==
    IF topic \in DOMAIN topics THEN topics[topic] ELSE <<>>

\* a _get_subscribers that returns without releasing the index lock
WorkerSubsCopyKeepsLock(w) ==
    /\ wpc[w] = "subs_copy"
    /\ wlocal' = [wlocal EXCEPT ![w].subs = get_subscribers(wlocal[w].eventobj.topic)]
    /\ wpc' = [wpc EXCEPT ![w] = "for"]
    /\ UNCHANGED <<config_vars, flag_vars, queue_vars, registry_vars, lock_objs, now,
                   poster_vars, admin_vars, stopper_vars, processed, dispatched>>

WorkerSubsCopy(w) ==
    /\ wpc[w] = "subs_copy"
    /\ wlocal' = [wlocal EXCEPT ![w].subs = get_subscribers(wlocal[w].eventobj.topic)]
    /\ index_locks' = NoThread
    /\ wpc' = [wpc EXCEPT ![w] = "for"]
    /\ UNCHANGED <<config_vars, flag_vars, queue_vars, topics, consumers,
                   subscriber_locks, consumers_lock, lock_objs, now,
                   poster_vars, admin_vars, stopper_vars, processed, dispatched>>

\* subscr.process(eventobj) is called: the subscriber records the event
Invoke(subscr, eventobj) ==
    processed' = [processed EXCEPT ![subscr] = Append(@, eventobj)]

\* whether _process_event takes the subscriber's lock around process()
uses_guard == ~subscribers_thread_safe

\* _process_event: the head of the for loop, up to lock.acquire() or, without
\* a lock, to the call of process()
WorkerFor(w) ==
    /\ wpc[w] = "for"
    /\ LET l == wlocal[w] IN
       IF l.subs = <<>>
       THEN /\ wpc' = [wpc EXCEPT ![w] = "loop"]
            /\ wlocal' = [wlocal EXCEPT ![w] = WLocal0]
            /\ dispatched' = dispatched \cup {l.eventobj.id}
            /\ UNCHANGED processed
       ELSE LET subscr == Head(l.subs) IN
            IF uses_guard
            THEN IF subscr \notin DOMAIN subscriber_locks
                 THEN \* KeyError: logged, continue
                      /\ wlocal' = [wlocal EXCEPT ![w].subs = Tail(l.subs)]
                      /\ UNCHANGED <<wpc, processed, dispatched>>
                 ELSE /\ wlocal' = [wlocal EXCEPT ![w].subs = Tail(l.subs),
                                                  ![w].subscr = subscr,
                                                  ![w].lock = subscriber_locks[subscr]]
                      /\ wpc' = [wpc EXCEPT ![w] = "acquire"]
                      /\ UNCHANGED <<processed, dispatched>>
            ELSE /\ wlocal' = [wlocal EXCEPT ![w].subs = Tail(l.subs),
                                             ![w].subscr = subscr,
                                             ![w].lock = 0]
                 /\ wpc' = [wpc EXCEPT ![w] = "process"]
                 /\ Invoke(subscr, l.eventobj)
                 /\ UNCHANGED dispatched
    /\ UNCHANGED <<config_vars, flag_vars, queue_vars, registry_vars, lock_objs, now,
                   poster_vars, admin_vars, stopper_vars>>

\* lock.acquire(), then the call of process()
WorkerAcquire(w) ==
    /\ wpc[w] = "acquire"
    /\ lock_objs[wlocal[w].lock] = NoThread
    /\ lock_objs' = [lock_objs EXCEPT ![wlocal[w].lock] = w]
    /\ wpc' = [wpc EXCEPT ![w] = "process"]
    /\ Invoke(wlocal[w].subscr, wlocal[w].eventobj)
    /\ UNCHANGED <<config_vars, flag_vars, queue_vars, registry_vars, now,
                   wlocal, poster_vars, admin_vars, stopper_vars, dispatched>>

\* how a call of subscr.process ends: it returns (NONE) or raises
process_raises(subscr) == IF subscr \in raising THEN "Exception" ELSE NONE

\* a try statement without a handler for the exception
except_catches_nothing(exc) == FALSE

\* except Exception as e
except_catches(exc) == exc = "Exception"

\* process() returns, or raises and the exception is logged; lock.release().
\* An exception that no handler catches ends the thread where it is.
WorkerReturn(w) ==
    /\ wpc[w] = "process"
    /\ LET exc == process_raises(wlocal[w].subscr) IN
       IF exc # NONE /\ ~except_catches(exc)
       THEN /\ wpc' = [wpc EXCEPT ![w] = "dead"]
            /\ UNCHANGED <<lock_objs, wlocal>>
       ELSE /\ lock_objs' = IF wlocal[w].lock # 0
                            THEN [lock_objs EXCEPT ![wlocal[w].lock] = NoThread]
                            ELSE lock_objs
            /\ wlocal' = [wlocal EXCEPT ![w].subscr = NONE, ![w].lock = 0]
            /\ wpc' = [wpc EXCEPT ![w] = "for"]
    /\ UNCHANGED <<config_vars, flag_vars, queue_vars, registry_vars, now,
                   poster_vars, admin_vars, stopper_vars, processed, dispatched>>

Worker(w) ==
    \/ WorkerLoop(w)
    \/ WorkerGet(w)
    \/ WorkerSubsLock(w)
    \/ WorkerSubsCopy(w)
    \/ WorkerFor(w)
    \/ WorkerAcquire(w)
    \/ WorkerReturn(w)

\* ------------------------------------------------------------------------
\* register_consumer
\* ------------------------------------------------------------------------
\* a register_consumer that appends without looking for the consumer
register_topic_appends(consumer, topic) ==
    IF topic \notin DOMAIN topics
    THEN DictSet(topics, topic, <<consumer>>)
    ELSE DictSet(topics, topic, Append(topics[topic], consumer))

\* the topic's list after register_consumer's update under the index lock
register_topic(consumer, topic) ==
    IF topic \notin DOMAIN topics
    THEN DictSet(topics, topic, <<consumer>>)
    ELSE IF consumer \notin SeqToSet(topics[topic])
    THEN DictSet(topics, topic, Append(topics[topic], consumer))
    ELSE topics

\* the isinstance check, then with self.consumers_lock
RegisterCall(a, consumer, topic) ==
    /\ apc[a] = "idle"
    /\ admin_ops < MaxAdminOps
    /\ admin_ops' = admin_ops + 1
    /\ IF ~IsSubscriber(consumer)
       THEN /\ aresult' = [aresult EXCEPT ![a] = AResult("register", consumer, "False")]
            /\ UNCHANGED <<apc, alocal, consumers_lock, unregistered>>
       ELSE /\ consumers_lock = NoThread
            /\ consumers_lock' = a
            /\ apc' = [apc EXCEPT ![a] = "reg_index"]
            /\ alocal' = [alocal EXCEPT ![a] =
                 [op |-> "register", consumer |-> consumer, topic |-> topic,
                  left |-> <<>>]]
            /\ aresult' = [aresult EXCEPT ![a] = AResult("register", consumer, PENDING)]
            /\ unregistered' = unregistered \ {consumer}
    /\ UNCHANGED <<config_vars, flag_vars, queue_vars, topics, consumers,
                   subscriber_locks, index_locks, lock_objs, now, worker_vars,
                   poster_vars, stopper_vars, processed, dispatched>>

\* with self.index_locks[indexval]
RegisterIndex(a) ==
    /\ apc[a] = "reg_index"
    /\ index_locks = NoThread
    /\ index_locks' = a
    /\ apc' = [apc EXCEPT ![a] = "reg_topics"]
    /\ UNCHANGED <<config_vars, flag_vars, queue_vars, topics, consumers,
                   subscriber_locks, consumers_lock, lock_objs, now, worker_vars,
                   poster_vars, stopper_vars, alocal, aresult, admin_ops,
                   unregistered, processed, dispatched>>

\* the update of self.topics, and the index lock is released
RegisterTopics(a) ==
    /\ apc[a] = "reg_topics"
    /\ topics' = register_topic(alocal[a].consumer, alocal[a].topic)
    /\ index_locks' = NoThread
    /\ apc' = [apc EXCEPT ![a] = "reg_consumers"]
    /\ UNCHANGED <<config_vars, flag_vars, queue_vars, consumers,
                   subscriber_locks, consumers_lock, lock_objs, now, worker_vars,
                   poster_vars, stopper_vars, alocal, aresult, admin_ops,
                   unregistered, processed, dispatched>>

\* whether register_consumer gives the consumer a new Lock()
creates_guard(consumer) ==
    ~subscribers_thread_safe /\ consumer \notin DOMAIN subscriber_locks

\* the update of self.consumers and self.subscriber_locks, and the consumers
\* lock is released
RegisterConsumers(a) ==
    /\ apc[a] = "reg_consumers"
    /\ LET consumer == alocal[a].consumer
           topic == alocal[a].topic
       IN /\ consumers' =
               IF consumer \notin DOMAIN consumers
               THEN DictSet(consumers, consumer, <<topic>>)
               ELSE IF topic \notin SeqToSet(consumers[consumer])
               THEN DictSet(consumers, consumer, Append(consumers[consumer], topic))
               ELSE consumers
          /\ IF creates_guard(consumer)
             THEN /\ lock_objs' = Append(lock_objs, NoThread)
                  /\ subscriber_locks' =
                       DictSet(subscriber_locks, consumer, Len(lock_objs) + 1)
             ELSE UNCHANGED <<lock_objs, subscriber_locks>>
    /\ consumers_lock' = NoThread
    /\ apc' = [apc EXCEPT ![a] = "idle"]
    /\ aresult' = [aresult EXCEPT ![a].value = NONE]
    /\ alocal' = [alocal EXCEPT ![a] = ALocal0]
    /\ UNCHANGED <<config_vars, flag_vars, queue_vars, topics, index_locks, now,
                   worker_vars, poster_vars, stopper_vars, admin_ops,
                   unregistered, processed, dispatched>>

\* ------------------------------------------------------------------------
\* unregister_consumer
\* ------------------------------------------------------------------------
\* an unregister_consumer that deletes the lock of a consumer that is not
\* thread safe
deletes_guard_when_unsafe(consumer) ==
    ~subscribers_thread_safe /\ consumer \in DOMAIN subscriber_locks

\* whether unregister_consumer deletes the consumer's lock
deletes_guard(consumer) ==
    subscribers_thread_safe /\ consumer \in DOMAIN subscriber_locks

\* with self.consumers_lock: the consumer leaves self.consumers; iterating
\* subscribed_topics = None raises TypeError
UnregisterCall(a, consumer) ==
    /\ apc[a] = "idle"
    /\ admin_ops < MaxAdminOps
    /\ admin_ops' = admin_ops + 1
    /\ consumers_lock = NoThread
    /\ consumers' = IF consumer \in DOMAIN consumers
                    THEN DictDel(consumers, consumer) ELSE consumers
    /\ subscriber_locks' = IF deletes_guard(consumer)
                           THEN DictDel(subscriber_locks, consumer)
                           ELSE subscriber_locks
    /\ IF consumer \in DOMAIN consumers
       THEN /\ consumers_lock' = a
            /\ apc' = [apc EXCEPT ![a] = "unreg_index"]
            /\ alocal' = [alocal EXCEPT ![a] =
                 [op |-> "unregister", consumer |-> consumer, topic |-> NONE,
                  left |-> consumers[consumer]]]
            /\ aresult' = [aresult EXCEPT ![a] =
                             AResult("unregister", consumer, PENDING)]
       ELSE /\ aresult' = [aresult EXCEPT ![a] =
                             AResult("unregister", consumer, "TypeError")]
            /\ UNCHANGED <<consumers_lock, apc, alocal>>
    /\ UNCHANGED <<config_vars, flag_vars, queue_vars, topics, index_locks,
                   lock_objs, now, worker_vars, poster_vars, stopper_vars,
                   unregistered, processed, dispatched>>

\* with self.index_locks[indexval]
UnregisterIndex(a) ==
    /\ apc[a] = "unreg_index"
    /\ index_locks = NoThread
    /\ index_locks' = a
    /\ apc' = [apc EXCEPT ![a] = "unreg_remove"]
    /\ UNCHANGED <<config_vars, flag_vars, queue_vars, topics, consumers,
                   subscriber_locks, consumers_lock, lock_objs, now, worker_vars,
                   poster_vars, stopper_vars, alocal, aresult, admin_ops,
                   unregistered, processed, dispatched>>

\* self.topics after the consumer is removed from the topic's list
unregister_topic(consumer, topic) ==
    IF topic \in DOMAIN topics /\ consumer \in SeqToSet(topics[topic])
    THEN IF Len(ListRemove(topics[topic], consumer)) = 0
         THEN DictDel(topics, topic)
         ELSE DictSet(topics, topic, ListRemove(topics[topic], consumer))
    ELSE topics

\* one round of the loop over subscribed_topics; after the last round the
\* consumers lock is released and the call returns
UnregisterRemove(a) ==
    /\ apc[a] = "unreg_remove"
    /\ topics' = unregister_topic(alocal[a].consumer, Head(alocal[a].left))
    /\ index_locks' = NoThread
    /\ IF Tail(alocal[a].left) = <<>>
       THEN /\ consumers_lock' = NoThread
            /\ apc' = [apc EXCEPT ![a] = "idle"]
            /\ alocal' = [alocal EXCEPT ![a] = ALocal0]
            /\ aresult' = [aresult EXCEPT ![a].value = NONE]
            /\ unregistered' = unregistered \cup {alocal[a].consumer}
       ELSE /\ apc' = [apc EXCEPT ![a] = "unreg_index"]
            /\ alocal' = [alocal EXCEPT ![a].left = Tail(@)]
            /\ UNCHANGED <<consumers_lock, unregistered, aresult>>
    /\ UNCHANGED <<config_vars, flag_vars, queue_vars, consumers,
                   subscriber_locks, lock_objs, now, worker_vars,
                   poster_vars, stopper_vars, admin_ops,
                   processed, dispatched>>

\* ------------------------------------------------------------------------
\* is_subscribed
\* ------------------------------------------------------------------------
is_subscribed(consumer, topic) ==
    topic \in DOMAIN topics /\ consumer \in SeqToSet(topics[topic])

\* the isinstance check, then with self.index_locks[indexval]
SubscribedCall(a, consumer, topic) ==
    /\ apc[a] = "idle"
    /\ admin_ops < MaxAdminOps
    /\ admin_ops' = admin_ops + 1
    /\ IF ~IsSubscriber(consumer)
       THEN /\ aresult' = [aresult EXCEPT ![a] =
                             AResult("is_subscribed", consumer, "False")]
            /\ UNCHANGED <<apc, alocal, index_locks>>
       ELSE /\ index_locks = NoThread
            /\ index_locks' = a
            /\ apc' = [apc EXCEPT ![a] = "sub_read"]
            /\ alocal' = [alocal EXCEPT ![a] =
                 [op |-> "is_subscribed", consumer |-> consumer, topic |-> topic,
                  left |-> <<>>]]
            /\ aresult' = [aresult EXCEPT ![a] =
                             AResult("is_subscribed", consumer, PENDING)]
    /\ UNCHANGED <<config_vars, flag_vars, queue_vars, topics, consumers,
                   subscriber_locks, consumers_lock, lock_objs, now, worker_vars,
                   poster_vars, stopper_vars, unregistered, processed, dispatched>>

SubscribedRead(a) ==
    /\ apc[a] = "sub_read"
    /\ aresult' = [aresult EXCEPT ![a].value =
         IF is_subscribed(alocal[a].consumer, alocal[a].topic)
         THEN "True" ELSE "False"]
    /\ index_locks' = NoThread
    /\ apc' = [apc EXCEPT ![a] = "idle"]
    /\ alocal' = [alocal EXCEPT ![a] = ALocal0]
    /\ UNCHANGED <<config_vars, flag_vars, queue_vars, topics, consumers,
                   subscriber_locks, consumers_lock, lock_objs, now, worker_vars,
                   poster_vars, stopper_vars, admin_ops, unregistered,
                   processed, dispatched>>

\* ------------------------------------------------------------------------
\* shutdown
\* ------------------------------------------------------------------------
\* a shutdown that enters without waiting for the shutdown lock
ShutdownCallNoWait(s) ==
    /\ spc[s] = "idle"
    /\ scalls[s] < MaxShutdownCalls
    /\ shutdown_lock' = s
    /\ scalls' = [scalls EXCEPT ![s] = @ + 1]
    /\ spc' = [spc EXCEPT ![s] = "check"]
    /\ UNCHANGED <<config_vars, keep_running, stop_time, queue_vars, registry_vars,
                   lock_objs, now, worker_vars, poster_vars, admin_vars,
                   sjoin, transitions, joined_by, returned, processed, dispatched>>

\* with self.shutdown_lock
ShutdownCall(s) ==
    /\ spc[s] = "idle"
    /\ scalls[s] < MaxShutdownCalls
    /\ shutdown_lock = NoThread
    /\ shutdown_lock' = s
    /\ scalls' = [scalls EXCEPT ![s] = @ + 1]
    /\ spc' = [spc EXCEPT ![s] = "check"]
    /\ UNCHANGED <<config_vars, keep_running, stop_time, queue_vars, registry_vars,
                   lock_objs, now, worker_vars, poster_vars, admin_vars,
                   sjoin, transitions, joined_by, returned, processed, dispatched>>

\* if not self.keep_running: return
ShutdownCheck(s) ==
    /\ spc[s] = "check"
    /\ IF ~keep_running
       THEN /\ shutdown_lock' = NoThread
            /\ spc' = [spc EXCEPT ![s] = "idle"]
            /\ returned' = Append(returned, s)
       ELSE /\ spc' = [spc EXCEPT ![s] = "flip"]
            /\ UNCHANGED <<shutdown_lock, returned>>
    /\ UNCHANGED <<config_vars, keep_running, stop_time, queue_vars, registry_vars,
                   lock_objs, now, worker_vars, poster_vars, admin_vars,
                   sjoin, scalls, transitions, joined_by, processed, dispatched>>

\* self.keep_running = False, and the shutdown lock is released
ShutdownFlip(s) ==
    /\ spc[s] = "flip"
    /\ keep_running' = FALSE
    /\ shutdown_lock' = NoThread
    /\ transitions' = Append(transitions, s)
    /\ spc' = [spc EXCEPT ![s] = "stop"]
    /\ UNCHANGED <<config_vars, stop_time, queue_vars, registry_vars,
                   lock_objs, now, worker_vars, poster_vars, admin_vars,
                   sjoin, scalls, joined_by, returned, processed, dispatched>>

\* self.stop_time = time() + 2
ShutdownStop(s) ==
    /\ spc[s] = "stop"
    /\ stop_time' = now + FLUSH_WAIT
    /\ sjoin' = [sjoin EXCEPT ![s] = 0]
    /\ IF executor_count <= 0
       THEN /\ spc' = [spc EXCEPT ![s] = "idle"]
            /\ returned' = Append(returned, s)
       ELSE /\ spc' = [spc EXCEPT ![s] = "join"]
            /\ UNCHANGED returned
    /\ UNCHANGED <<config_vars, keep_running, shutdown_lock, queue_vars,
                   registry_vars, lock_objs, now, worker_vars, poster_vars,
                   admin_vars, scalls, transitions, joined_by, processed, dispatched>>

\* thrd.join() of the next executor; after the last one the call returns
ShutdownJoin(s) ==
    /\ spc[s] = "join"
    /\ wpc[sjoin[s]] = "done"
    /\ joined_by' = [joined_by EXCEPT ![sjoin[s]] = Append(@, s)]
    /\ sjoin' = [sjoin EXCEPT ![s] = @ + 1]
    /\ IF sjoin[s] + 1 >= executor_count
       THEN /\ spc' = [spc EXCEPT ![s] = "idle"]
            /\ returned' = Append(returned, s)
       ELSE UNCHANGED <<spc, returned>>
    /\ UNCHANGED <<config_vars, flag_vars, queue_vars, registry_vars,
                   lock_objs, now, worker_vars, poster_vars, admin_vars,
                   scalls, transitions, processed, dispatched>>

Stopper(s) ==
    \/ ShutdownCall(s)
    \/ ShutdownCheck(s)
    \/ ShutdownFlip(s)
    \/ ShutdownStop(s)
    \/ ShutdownJoin(s)

\* ------------------------------------------------------------------------
\* Specifications
\* ------------------------------------------------------------------------
\* the objects a post call is given: an event of topic "topic" with no
\* ordering key (NONE) or with one of the keys, or an object that is no event
PostObjects(kinds) ==
    {EventObj(posts + 1, "topic", k) : k \in kinds \cap ({NONE} \cup OrderKeys)}
        \cup {OtherObj(posts + 1) : k \in kinds \cap {"object"}}

AllKinds == {NONE, "ord", "a", "object"}

\* a thread that calls post while fewer than limit calls were made
Poster(p, limit, kinds) ==
    \/ /\ posts < limit
       /\ \E obj \in PostObjects(kinds) : PostCall(p, obj)
    \/ PostPut(p)

\* a thread that calls the registry's operations with consumers of cs and
\* topics of ts
Admin(a, cs, ts) ==
    \/ \E c \in cs, t \in ts : RegisterCall(a, c, t)
    \/ RegisterIndex(a)
    \/ RegisterTopics(a)
    \/ RegisterConsumers(a)
    \/ \E c \in cs : UnregisterCall(a, c)
    \/ UnregisterIndex(a)
    \/ UnregisterRemove(a)
    \/ \E c \in cs, t \in ts : SubscribedCall(a, c, t)
    \/ SubscribedRead(a)

\* The whole program: every thread, every input. The specifications below
\* restrict it to the threads and inputs a group of properties is about, and
\* start from a registry that register_consumer calls have filled.
Init ==
    /\ \E ts \in BOOLEAN : BusInit(2, 1, ts)
    /\ RegistryEmpty
    /\ ClientsInit
    /\ SubscribersInit({})

Next ==
    \/ Tick
    \/ \E w \in Executors : Worker(w)
    \/ \E p \in Posters : Poster(p, MaxPosts, AllKinds)
    \/ \E a \in Admins : Admin(a, Consumers \cup {"obj"}, Topics)
    \/ \E s \in Stoppers : Stopper(s)

Spec == Init /\ [][Next]_vars

\* Posting: two threads post to a bus of one or two executors whose shared
\* queue holds one event, with c1 and c2 subscribed to "topic"
InitPost ==
    /\ \E n \in {1, 2}, ts \in BOOLEAN : BusInit(n, 1, ts)
    /\ RegistryWith(<<"c1", "c2">>)
    /\ ClientsInit
    /\ SubscribersInit({})

NextPost ==
    \/ \E w \in Executors : Worker(w)
    \/ \E p \in Posters : Poster(p, MaxPosts, AllKinds)

SpecPost == InitPost /\ [][NextPost]_vars

\* Shutdown: one thread posts and two threads call shutdown, with c1
\* subscribed to "topic", while the clock runs
InitShutdown ==
    /\ \E ts \in BOOLEAN : BusInit(2, 1, ts)
    /\ RegistryWith(<<"c1">>)
    /\ ClientsInit
    /\ SubscribersInit({})

NextShutdown ==
    \/ Tick
    \/ \E w \in Executors : Worker(w)
    \/ \E p \in {101} : Poster(p, MaxShutdownPosts, AllKinds)
    \/ \E s \in Stoppers : Stopper(s)

SpecShutdown == InitShutdown /\ [][NextShutdown]_vars

\* the same, with every executor thread and every thread inside shutdown
\* scheduled again and again (a call of process() that has begun returns)
SpecShutdownFair ==
    /\ SpecShutdown
    /\ \A w \in 0..1 : WF_vars(Worker(w))
    /\ \A s \in Stoppers : WF_vars(Stopper(s))

\* Registry: two threads register, unregister and look up consumers while one
\* thread posts, starting with c1 subscribed to "topic"
InitRegistry ==
    /\ \E ts \in BOOLEAN : BusInit(2, 1, ts)
    /\ RegistryWith(<<"c1">>)
    /\ ClientsInit
    /\ SubscribersInit({})

NextRegistry ==
    \/ \E w \in Executors : Worker(w)
    \/ \E p \in {101} : Poster(p, MaxRegistryPosts, {NONE})
    \/ \E a \in Admins : Admin(a, {"c1"}, {"topic"})

SpecRegistry == InitRegistry /\ [][NextRegistry]_vars

\* Construction: buses built with an executor_count below, inside and above
\* the range 1..MAX_EXECUTOR_COUNT, and two threads that post to them. The
\* executor threads are left unscheduled: the events stay where post put them.
ExecutorCounts == {0 - 1, 0, 1, 2, MAX_EXECUTOR_COUNT + 1}

InitConstruct ==
    /\ \E n \in ExecutorCounts, ts \in BOOLEAN : BusInit(n, 1, ts)
    /\ RegistryWith(<<"c1">>)
    /\ ClientsInit
    /\ SubscribersInit({})

NextConstruct == \E p \in Posters : Poster(p, MaxPosts, AllKinds)

SpecConstruct == InitConstruct /\ [][NextConstruct]_vars

\* Back-pressure: two threads post unordered events to a bus of one executor
\* whose shared queue holds one event, while one thread calls shutdown and the
\* clock runs
InitBackpressure ==
    /\ \E ts \in BOOLEAN : BusInit(1, 1, ts)
    /\ RegistryWith(<<"c1">>)
    /\ ClientsInit
    /\ SubscribersInit({})

NextBackpressure ==
    \/ Tick
    \/ \E w \in Executors : Worker(w)
    \/ \E p \in Posters : Poster(p, MaxPosts, {NONE})
    \/ \E s \in {301} : Stopper(s)

SpecBackpressure == InitBackpressure /\ [][NextBackpressure]_vars

\* Failing subscribers: one thread posts to a bus of one or two executors with
\* c1 and c2 subscribed to "topic", where c1's process(), c2's or both raise
InitIsolation ==
    /\ \E n \in {1, 2}, ts \in BOOLEAN : BusInit(n, 1, ts)
    /\ RegistryWith(<<"c1", "c2">>)
    /\ ClientsInit
    /\ \E rs \in (SUBSET Consumers) \ {{}} : SubscribersInit(rs)

NextIsolation ==
    \/ \E w \in Executors : Worker(w)
    \/ \E p \in {101} : Poster(p, MaxPosts, {NONE, "ord"})

SpecIsolation == InitIsolation /\ [][NextIsolation]_vars

\* Lanes: one thread posts ordered and unordered events to a bus of two
\* executors with c1 subscribed to "topic"; every executor thread is scheduled
\* again and again, and a call of process() that has begun returns
InitLane ==
    /\ \E ts \in BOOLEAN : BusInit(2, 1, ts)
    /\ RegistryWith(<<"c1">>)
    /\ ClientsInit
    /\ SubscribersInit({})

NextLane ==
    \/ \E w \in Executors : Worker(w)
    \/ \E p \in {101} : Poster(p, MaxPosts, {NONE, "ord", "a"})

SpecLaneFair ==
    /\ InitLane
    /\ [][NextLane]_vars
    /\ \A w \in 0..1 : WF_vars(Worker(w))

\* First registration: as the registry specification, but on a new bus, to
\* which no consumer has been registered yet
InitGuard ==
    /\ \E ts \in BOOLEAN : BusInit(2, 1, ts)
    /\ RegistryEmpty
    /\ ClientsInit
    /\ SubscribersInit({})

SpecGuard == InitGuard /\ [][NextRegistry]_vars

\* ------------------------------------------------------------------------
\* Properties
\* ------------------------------------------------------------------------
\* e1's post returned true before e2's did
AcceptedBefore(e1, e2) ==
    \E i, j \in 1..Len(accepted) : i < j /\ accepted[i] = e1 /\ accepted[j] = e2

SameKey(e1, e2) == e1.ordered # NONE /\ e1.ordered = e2.ordered

\* the calls of c.process that have not returned
InProcess(c) ==
    {wlocal[w].eventobj : w \in {x \in Executors : wpc[x] = "process"
                                                   /\ wlocal[x].subscr = c}}

RECURSIVE LanesTotal(_)
LanesTotal(i) ==
    IF i > Len(grouped_events) THEN 0
    ELSE Len(grouped_events[i]) + LanesTotal(i + 1)

TotalQueued == Len(event_queue) + LanesTotal(1)

\* C10 as stated: the shared queue and the lanes together never hold more than
\* max_queued_event events
C10_TotalBounded == TotalQueued <= max_queued_event

\* C10, amended: the shared queue alone never holds more than max_queued_event
\* events
C10_SharedQueueBounded == Len(event_queue) <= max_queued_event

\* the shared queue is full and a post of an unordered event waits for room
C10_Witness ==
    /\ Len(event_queue) = max_queued_event
    /\ \E p \in Posters :
           ppc[p] = "put" /\ choose_queue(plocal[p]).kind = "shared"

AllExecutorsEnded == \A w \in Executors : wpc[w] = "done"

\* C2: eventual delivery, as what must be true at the end: once every executor
\* thread has ended, every accepted event has been taken from its queue and
\* dispatched (an event still queued then is never delivered)
C2_EventualDelivery ==
    AllExecutorsEnded => \A i \in 1..Len(accepted) : accepted[i].id \in dispatched

\* C3: shutdown drains. No executor thread leaves its loop while the stop
\* deadline is set and not yet reached and its lane or the shared queue holds
\* an event
C3_ShutdownDrains ==
    [][\A w \in Executors :
          (wpc[w] # "done" /\ wpc'[w] = "done")
              => ~(/\ stop_time > 0
                   /\ now < stop_time
                   /\ (grouped_events[w + 1] # <<>> \/ event_queue # <<>>))]_vars

\* C4: shutdown terminates. The call that performed the transition eventually
\* returns, with every executor thread ended
C4_ShutdownTerminates ==
    (transitions # <<>>)
        ~> (/\ transitions # <<>>
            /\ \E i \in 1..Len(returned) : returned[i] = transitions[1]
            /\ AllExecutorsEnded)

\* C5: whenever some shutdown call has returned, every executor thread has ended
C5_ReturnedImpliesStopped == returned # <<>> => AllExecutorsEnded

PostCallBy(p) == posts' = posts + 1 /\ presult'[p] # presult[p]

\* p's post call returns from queue.put in this step
PostReturnBy(p) == ppc[p] = "put" /\ ppc'[p] = "idle"

\* the event is appended to the shared queue or to one lane, and no other
\* queue changes
AppendedToOneQueue(e) ==
    \/ /\ event_queue' = Append(event_queue, e)
       /\ grouped_events' = grouped_events
    \/ /\ event_queue' = event_queue
       /\ \E i \in 1..Len(grouped_events) :
              grouped_events' = [grouped_events EXCEPT ![i] = Append(@, e)]

\* C7: post rejects without side effects. A call given a non-event, or begun
\* when the bus is no longer running, returns False at once and changes no
\* queue; a call given an event on a running bus goes on to queue.put, and when
\* it returns it returns True and has appended the event to exactly one queue
C7_PostRejects ==
    [][\A p \in Posters :
          /\ (PostCallBy(p) /\ (~IsEvent(presult'[p].obj) \/ ~keep_running))
                 => (presult'[p].value = "False"
                     /\ UNCHANGED <<event_queue, grouped_events>>)
          /\ (PostCallBy(p) /\ IsEvent(presult'[p].obj) /\ keep_running)
                 => (presult'[p].value = PENDING /\ ppc'[p] = "put"
                     /\ UNCHANGED <<event_queue, grouped_events>>)
          /\ PostReturnBy(p)
                 => (presult'[p].value = "True" /\ AppendedToOneQueue(plocal[p]))]_vars

\* a well-formed event was rejected because shutdown had moved the bus out of
\* running, and no queue holds it
C7_Witness ==
    \E p \in Posters :
        /\ presult[p].value = "False"
        /\ IsEvent(presult[p].obj)
        /\ ~keep_running
        /\ TotalQueued = 0

\* C8: registry correctness. Once unregister_consumer(c) has returned, and
\* until register_consumer is called for c again, is_subscribed(c, t) is false
\* for every topic and c.process is not called
C8_NoDeliveryAfterUnregister ==
    [][\A c \in Consumers :
          c \in unregistered'
              => /\ \A t \in Topics : ~is_subscribed(c, t)'
                 /\ c \in unregistered => processed'[c] = processed[c]]_vars

\* C9: mutual exclusion. With subscribers_thread_safe = False no two executor
\* threads are inside process() of one subscriber at the same time
C9_MutualExclusion ==
    ~subscribers_thread_safe
        => \A w1, w2 \in Executors :
               (w1 # w2 /\ wpc[w1] = "process" /\ wpc[w2] = "process")
                   => wlocal[w1].subscr # wlocal[w2].subscr

\* c1 was unregistered and registered again while one executor thread was
\* dispatching to it; that thread is inside c1.process and the other waits
\* for c1's lock
C9_Witness ==
    /\ ~subscribers_thread_safe
    /\ \E a1, a2 \in Admins :
           /\ aresult[a1] = AResult("unregister", "c1", NONE)
           /\ aresult[a2] = AResult("register", "c1", NONE)
    /\ is_subscribed("c1", "topic")
    /\ \E w1, w2 \in Executors :
           /\ wpc[w1] = "process" /\ wlocal[w1].subscr = "c1"
           /\ wpc[w2] = "acquire" /\ wlocal[w2].subscr = "c1"
           /\ wlocal[w1].eventobj.id = 1
           /\ wlocal[w2].eventobj.id = 2

\* C11: unregister_consumer(c) for a consumer that is not registered returns
\* normally: no call ends in an exception (the registry is then as it was:
\* the call's only writes are behind the test for a registered consumer)
C11_UnregisterUnknownReturns ==
    \A a \in Admins :
        aresult[a].op = "unregister" => aresult[a].value \in {NONE, PENDING}

\* C13: no admission after running ends. A queue gains an event, and a post
\* call returns True, only in a step taken while keep_running is True
C13_NoAdmissionAfterStop ==
    [][\A p \in Posters :
          (PostReturnBy(p) \/ TotalQueued' > TotalQueued) => keep_running]_vars

\* the consumer is in some topic's list
InSomeTopicList(c) == \E t \in DOMAIN topics : c \in SeqToSet(topics[t])

\* C16: after unregister_consumer(c) has returned (and until register_consumer
\* is called for c again) c is in no topic's list, is no key of self.consumers
\* and, with subscribers_thread_safe = False, is no key of self.subscriber_locks
C16_UnregisterRemovesAll ==
    \A c \in unregistered :
        /\ ~InSomeTopicList(c)
        /\ c \notin DOMAIN consumers
        /\ ~subscribers_thread_safe => c \notin DOMAIN subscriber_locks

\* C12: the worker count is clamped to 1..128. Whatever executor_count the
\* constructor is given, the bus has between 1 and 128 executor threads and as
\* many lanes, and _choose_queue finds a lane for every ordering key: no post
\* ends in an exception
C12_WorkerCountClamped ==
    /\ executor_count \in 1..MAX_EXECUTOR_COUNT
    /\ Len(grouped_events) = executor_count
    /\ DOMAIN wpc = 0..(executor_count - 1)
    /\ \A p \in Posters :
           presult[p].value \notin {"ZeroDivisionError", "IndexError"}

\* p's post call waits in queue.put for room in the shared queue
BlockedInPut(p) ==
    /\ ppc[p] = "put"
    /\ choose_queue(plocal[p]).kind = "shared"
    /\ QueueFull(event_queue, max_queued_event)

\* C14: post never blocks indefinitely. No post call waits in queue.put for
\* room in a full shared queue once every executor thread has ended: nothing
\* takes an event from the queue any more, so such a call never returns
C14_PostNeverBlocksForever ==
    ~(AllExecutorsEnded /\ \E p \in Posters : BlockedInPut(p))

\* no element occurs twice in the sequence
NoDuplicates(s) == \A i, j \in 1..Len(s) : s[i] = s[j] => i = j

\* the events an executor thread has taken from a queue and is dispatching
Taken == {wlocal[w].eventobj : w \in {x \in Executors : IsEvent(wlocal[x].eventobj)}}

\* C15: at-most-once delivery. A topic's list holds each consumer at most
\* once; an event taken from its queue is held by one executor thread and is
\* in no queue any more; and no subscriber is given an accepted event twice
\* (every post call makes an event of its own)
C15_AtMostOnce ==
    /\ \A t \in DOMAIN topics : NoDuplicates(topics[t])
    /\ \A w1, w2 \in Executors :
           (w1 # w2 /\ IsEvent(wlocal[w1].eventobj))
               => wlocal[w1].eventobj # wlocal[w2].eventobj
    /\ \A e \in Taken :
           /\ e \notin SeqToSet(event_queue)
           /\ \A i \in 1..Len(grouped_events) : e \notin SeqToSet(grouped_events[i])
    /\ \A c \in Consumers :
           /\ NoDuplicates(processed[c])
           /\ SeqToSet(processed[c]) \subseteq SeqToSet(accepted)

\* register_consumer(c1, "topic") was called and has returned with c1 already
\* in the topic's list, no unregister_consumer call was made, and c1 has been
\* given both posted events
C15_Witness ==
    /\ \E a \in Admins : aresult[a] = AResult("register", "c1", NONE)
    /\ \A a \in Admins : aresult[a].op # "unregister"
    /\ admin_ops = 1
    /\ topics["topic"] = <<"c1">>
    /\ Len(processed["c1"]) = 2
    /\ dispatched = {1, 2}

\* C17: subscriber failure isolation. No executor thread is ended by a
\* subscriber's exception; when a thread has walked its snapshot for an event,
\* process(e) was called on every subscriber of the topic, whichever of them
\* raise; and a subscriber's lock is held only by a thread that is inside that
\* subscriber's process()
C17_FailureIsolation ==
    /\ \A w \in Executors : wpc[w] # "dead"
    /\ \A i \in 1..Len(accepted) :
           accepted[i].id \in dispatched
               => \A c \in SeqToSet(get_subscribers(accepted[i].topic)) :
                      accepted[i] \in SeqToSet(processed[c])
    /\ \A k \in DOMAIN lock_objs :
           lock_objs[k] # NoThread
               => /\ wpc[lock_objs[k]] = "process"
                  /\ wlocal[lock_objs[k]].lock = k

\* c1's process() raises and c2's does not; the one executor thread has taken
\* c1's lock for both events, has given both to c2 as well, and is back at
\* its loop with c1's lock free
C17_Witness ==
    /\ raising = {"c1"}
    /\ ~subscribers_thread_safe
    /\ executor_count = 1
    /\ Len(processed["c1"]) = 2
    /\ Len(processed["c2"]) = 2
    /\ dispatched = {1, 2}
    /\ wpc[0] = "loop"
    /\ lock_objs[subscriber_locks["c1"]] = NoThread

\* the event of this identity is in some lane
InLane(id) ==
    \E i \in 1..Len(grouped_events) :
        \E k \in 1..Len(grouped_events[i]) : grouped_events[i][k].id = id

\* w takes an event from a queue in this step
Pulls(w) == wpc[w] = "get" /\ wpc'[w] = "subs_lock"

WaitsFor(t) ==
    IF t \in Executors
    THEN CASE wpc[t] = "subs_lock" -> index_locks
           [] wpc[t] = "acquire" -> lock_objs[wlocal[t].lock]
           [] OTHER -> NoThread
    ELSE IF apc[t] \in {"reg_index", "unreg_index"} THEN index_locks ELSE NoThread

\* following the locks' holders from t leads to target within n steps
RECURSIVE Reaches(_, _, _)
Reaches(t, target, n) ==
    IF n = 0 THEN FALSE
    ELSE LET h == WaitsFor(t) IN
         h # NoThread /\ (h = target \/ Reaches(h, target, n - 1))

\* some threads wait for locks in a circle
Deadlocked ==
    \E t \in Executors \cup Admins :
        Reaches(t, t, Cardinality(Executors \cup Admins))

\* C19: deadlock freedom of the locks. No set of threads waits in a circle for
\* locks the others hold; a thread inside register_consumer or
\* unregister_consumer that holds the index lock holds the consumers lock, and
\* no thread takes the consumers lock while it holds the index lock
C19_NoDeadlock ==
    /\ [](~Deadlocked)
    /\ [](\A a \in Admins :
              (index_locks = a /\ apc[a] \in {"reg_topics", "unreg_remove"})
                  => consumers_lock = a)
    /\ [][(consumers_lock' # consumers_lock /\ consumers_lock' # NoThread)
              => index_locks # consumers_lock']_vars

\* a thread inside register_consumer holds the consumers lock and waits for the
\* index lock, which an executor thread holds for its snapshot
C19_Witness ==
    /\ \E a \in Admins : apc[a] = "reg_index" /\ consumers_lock = a
    /\ \E w \in Executors : wpc[w] = "subs_copy" /\ index_locks = w

\* C20: guard presence. With subscribers_thread_safe = False every consumer in
\* a topic's list is a key of self.subscriber_locks, and no executor thread is
\* about to dispatch to a subscriber of its snapshot that has no lock
C20_GuardPresent ==
    ~subscribers_thread_safe
        => /\ \A t \in DOMAIN topics :
                  SeqToSet(topics[t]) \subseteq DOMAIN subscriber_locks
           /\ \A w \in Executors :
                  (wpc[w] = "for" /\ wlocal[w].subs # <<>>)
                      => Head(wlocal[w].subs) \in DOMAIN subscriber_locks

====
